---- MODULE Spec2Model ----
(***************************************************************************)
(* A model of surveyhelper/question.py: survey questions (single-answer,   *)
(* multi-answer, matrices of them) and their tabulation over a dataset.    *)
(*                                                                         *)
(* Data representation                                                     *)
(*   - a dataset (pandas DataFrame) is a sequence of rows, a row is a      *)
(*     function from column names to cells;                                *)
(*   - a cell is NaN (missing, np.nan) or Cell(v) for a present value v;   *)
(*   - a question object is a record of its attributes, held in the heap   *)
(*     `questions` under its identity;                                     *)
(*   - the outcome of a call is Returns(value) or Raise(exception);       *)
(*   - a float is an exact fraction <<numerator, denominator>>, and the    *)
(*     not-a-number sentinel is NaN.                                       *)
(***************************************************************************)
EXTENDS Integers, Sequences, FiniteSets, TLC

VARIABLES
    questions,      \* heap of question objects: identity -> attributes
    matrices,       \* heap of matrix objects, in order of construction
    response_set,   \* the caller's dataset
    result          \* the last call: operation, arguments, returned value

vars == <<questions, matrices, response_set, result>>

(***************************************************************************)
(* Bounds of the model.                                                    *)
(***************************************************************************)
MaxRows == 3

\* matrix objects constructed in one run
MaxMatrices == 1

\* labels a list of choices takes up beyond its codebook
MaxAppends == 1

\* rows of the dataset whose groups are compared
MaxCompareRows == 4

\* rows of the dataset that is cross-tabulated
MaxCutRows == 2

\* answer codes that occur in a codebook or in a data column
ValuePool == {1, 2, 3}

\* answer labels, in the order a question lists them
LabelPool == <<"Yes", "No", "DK">>

\* the choice columns of a multi-answer question, in choice order
VarPool == <<"a", "b">>

(***************************************************************************)
(* Generic helpers.                                                        *)
(***************************************************************************)
NaN == << >>

Cell(v) == <<v>>

None == [type |-> "None"]

\* the outcome of a call: the value it returns, or the exception it raises
Returns(value) == [raised |-> "", ret |-> value]

Raise(kind) == [raised |-> kind, ret |-> None]

RECURSIVE sum(_)
sum(s) == IF s = << >> THEN 0 ELSE Head(s) + sum(Tail(s))

\* itertools.compress
RECURSIVE compress(_, _)
compress(data, selectors) ==
    IF data = << >> \/ selectors = << >>
    THEN << >>
    ELSE (IF Head(selectors) THEN <<Head(data)>> ELSE << >>)
         \o compress(Tail(data), Tail(selectors))

\* [not x for x in flags]
not_each(flags) == [i \in DOMAIN flags |-> ~flags[i]]

\* df[var]: one column of a dataset, as a sequence of cells
column(df, var) == [i \in DOMAIN df |-> df[i][var]]

\* the column names of a dataset with at least one row
columns(df) == IF df = << >> THEN {} ELSE DOMAIN df[1]

\* Series.dropna()
RECURSIVE dropna(_)
dropna(s) ==
    IF s = << >> THEN << >>
    ELSE (IF Head(s) = NaN THEN << >> ELSE <<Head(s)>>) \o dropna(Tail(s))

\* dict(Series.value_counts()): present value -> number of occurrences
value_counts(unit_record) ==
    [k \in {unit_record[i][1] : i \in {j \in DOMAIN unit_record : unit_record[j] # NaN}}
        |-> Cardinality({i \in DOMAIN unit_record : unit_record[i] = Cell(k)})]

\* round-half-even of the fraction n/d (d > 0, n >= 0), as format() rounds
round_half_even(n, d) ==
    LET q == n \div d
        r == n % d
    IN  IF 2 * r < d THEN q
        ELSE IF 2 * r > d THEN q + 1
        ELSE IF q % 2 = 0 THEN q ELSE q + 1

\* format(x/resp, ".0%"): the share as a whole percent
percent(x, resp) == round_half_even(100 * x, resp)

format_pct(x, resp) == ToString(percent(x, resp)) \o "%"

\* format(m, ".1f") of a mean m = <<num, n>> or NaN
format_mean(m) ==
    IF m = NaN THEN "nan"
    ELSE LET tenths == round_half_even(10 * m[1], m[2])
         IN  ToString(tenths \div 10) \o "." \o ToString(tenths % 10)

(***************************************************************************)
(* SelectOneQuestion                                                       *)
(***************************************************************************)
SelectOneQuestion(text, var, choices, label, values, exclude_from_analysis, matrix) ==
    [type |-> "SelectOneQuestion",
     text |-> text,
     choices |-> choices,
     label |-> label,
     variable |-> var,
     values |-> values,
     exclude_from_analysis |-> exclude_from_analysis,
     matrix |-> matrix]

SelectOneQuestion_get_choices(self, remove_exclusions, show_values) ==
    LET keep == not_each(self.exclude_from_analysis)
        choices == IF remove_exclusions THEN compress(self.choices, keep)
                   ELSE self.choices
        values == IF remove_exclusions THEN compress(self.values, keep)
                  ELSE self.values
        \* zip() stops at the shortest list
        n == IF Len(choices) < Len(values) THEN Len(choices) ELSE Len(values)
        m == IF n < Len(self.exclude_from_analysis) THEN n
             ELSE Len(self.exclude_from_analysis)
    IN  IF show_values
        THEN IF remove_exclusions
             THEN [i \in 1..n |-> choices[i] \o " (" \o ToString(values[i]) \o ")"]
             ELSE [i \in 1..m |->
                     IF self.exclude_from_analysis[i]
                     THEN choices[i] \o " (X)"
                     ELSE choices[i] \o " (" \o ToString(values[i]) \o ")"]
        ELSE choices

\* a slip: the non-respondents taken to be the missing answers only
SelectOneQuestion_tally_nan_only(self, df, remove_exclusions) ==
    LET unit_record == column(df, self.variable)
        freqs == value_counts(unit_record)
        values == IF remove_exclusions
                  THEN compress(self.values, not_each(self.exclude_from_analysis))
                  ELSE self.values
        cts == [i \in DOMAIN values |->
                  IF values[i] \in DOMAIN freqs THEN freqs[values[i]] ELSE 0]
    IN  <<cts, sum(cts), Len(unit_record) - Len(dropna(unit_record))>>

\* a slip: the split taken over the whole column, whatever is retained
SelectOneQuestion_tally_whole_column(self, df, remove_exclusions) ==
    LET unit_record == column(df, self.variable)
        freqs == value_counts(unit_record)
        values == IF remove_exclusions
                  THEN compress(self.values, not_each(self.exclude_from_analysis))
                  ELSE self.values
        cts == [i \in DOMAIN values |->
                  IF values[i] \in DOMAIN freqs THEN freqs[values[i]] ELSE 0]
        all == [i \in DOMAIN self.values |->
                  IF self.values[i] \in DOMAIN freqs THEN freqs[self.values[i]] ELSE 0]
    IN  <<cts, sum(all), Len(unit_record) - sum(all)>>

SelectOneQuestion_tally(self, df, remove_exclusions) ==
    LET unit_record == column(df, self.variable)
        freqs == value_counts(unit_record)
        values == IF remove_exclusions
                  THEN compress(self.values, not_each(self.exclude_from_analysis))
                  ELSE self.values
        cts == [i \in DOMAIN values |->
                  IF values[i] \in DOMAIN freqs THEN freqs[values[i]] ELSE 0]
    IN  <<cts, sum(cts), Len(unit_record) - sum(cts)>>

\* a slip: the counts of the retained choices paired with all the values
SelectOneQuestion_mean_all_values(self, df, remove_exclusions) ==
    LET values == self.values
        t == SelectOneQuestion_tally(self, df, remove_exclusions)
        freq == t[1]
        n == t[2]
        k == IF Len(freq) < Len(values) THEN Len(freq) ELSE Len(values)
        num == sum([i \in 1..k |-> freq[i] * values[i]])
    IN  IF n > 0 THEN <<num, n>> ELSE NaN

SelectOneQuestion_mean(self, df, remove_exclusions) ==
    LET values == IF remove_exclusions
                  THEN compress(self.values, not_each(self.exclude_from_analysis))
                  ELSE self.values
        t == SelectOneQuestion_tally(self, df, remove_exclusions)
        freq == t[1]
        n == t[2]
        k == IF Len(freq) < Len(values) THEN Len(freq) ELSE Len(values)
        num == sum([i \in 1..k |-> freq[i] * values[i]])
    IN  IF n > 0 THEN <<num, n>> ELSE NaN

\* pd.DataFrame(data).T with the given column names, then the appended rows;
\* pandas fills a list shorter than the longest one with None
table_of(data, cols, extra_rows) ==
    LET n == IF data = << >> THEN 0
             ELSE CHOOSE k \in {Len(data[j]) : j \in DOMAIN data} :
                     \A j \in DOMAIN data : Len(data[j]) <= k
    IN  [columns |-> cols,
         rows |-> [i \in 1..n |->
                     [j \in DOMAIN data |->
                         IF i \in DOMAIN data[j] THEN data[j][i] ELSE None]]
                  \o extra_rows]

SelectOneQuestion_frequency_table(self, df, show_question, ct, pct, remove_exclusions, show_totals, show_mean) ==
    LET t == SelectOneQuestion_tally(self, df, remove_exclusions)
        cts == t[1]
        resp == t[2]
        m == format_mean(SelectOneQuestion_mean(self, df, remove_exclusions))
        l == [i \in DOMAIN cts |->
                IF resp > 0 THEN format_pct(cts[i], resp) ELSE "-"]
        data == (IF show_question
                 THEN <<SelectOneQuestion_get_choices(self, remove_exclusions, show_mean)>>
                 ELSE << >>)
                \o (IF ct THEN <<cts>> ELSE << >>)
                \o (IF pct THEN <<l>> ELSE << >>)
        cols == (IF show_question THEN <<"Answer">> ELSE << >>)
                \o (IF ct THEN <<"Count">> ELSE << >>)
                \o (IF pct THEN <<"%">> ELSE << >>)
        tots == (IF show_question THEN <<"Total">> ELSE << >>)
                \o (IF ct THEN <<resp>> ELSE << >>)
                \o (IF pct THEN <<"100%">> ELSE << >>)
        mean == (IF show_question THEN <<"Mean">> ELSE << >>)
                \o (IF ct THEN <<m>> ELSE << >>)
                \o (IF pct THEN (IF ~ct THEN <<m>> ELSE <<"">>) ELSE << >>)
    IN  table_of(data, cols,
                 (IF show_totals THEN <<tots>> ELSE << >>)
                 \o (IF show_mean THEN <<mean>> ELSE << >>))

(***************************************************************************)
(* SelectMultipleQuestion                                                  *)
(***************************************************************************)
SelectMultipleQuestion(text, variables, choices, label, exclude_from_analysis, matrix) ==
    [type |-> "SelectMultipleQuestion",
     text |-> text,
     choices |-> choices,
     label |-> label,
     variables |-> variables,
     exclude_from_analysis |-> exclude_from_analysis,
     matrix |-> matrix]

SelectMultipleQuestion_get_choices(self, remove_exclusions) ==
    IF remove_exclusions
    THEN compress(self.choices, not_each(self.exclude_from_analysis))
    ELSE self.choices

\* the loop of tally over the rows: acc = <<cts, respondents, nonrespondents>>
RECURSIVE tally_rows(_, _, _)
tally_rows(rows, variables, acc) ==
    IF rows = << >> THEN acc
    ELSE LET row == Head(rows)
             empty == \A j \in DOMAIN variables : row[variables[j]] = NaN
         IN  tally_rows(Tail(rows), variables,
                 IF empty
                 THEN <<acc[1], acc[2], acc[3] + 1>>
                 ELSE <<[j \in DOMAIN variables |->
                           IF row[variables[j]] # NaN THEN acc[1][j] + 1 ELSE acc[1][j]],
                        acc[2] + 1, acc[3]>>)

\* a slip: a respondent counted once per variable present
RECURSIVE tally_rows_per_variable(_, _, _)
tally_rows_per_variable(rows, variables, acc) ==
    IF rows = << >> THEN acc
    ELSE LET row == Head(rows)
             empty == \A j \in DOMAIN variables : row[variables[j]] = NaN
         IN  tally_rows_per_variable(Tail(rows), variables,
                 IF empty
                 THEN <<acc[1], acc[2], acc[3] + 1>>
                 ELSE <<[j \in DOMAIN variables |->
                           IF row[variables[j]] # NaN THEN acc[1][j] + 1 ELSE acc[1][j]],
                        acc[2] + Cardinality({j \in DOMAIN variables : row[variables[j]] # NaN}),
                        acc[3]>>)

SelectMultipleQuestion_tally_per_variable(self, df, remove_exclusions) ==
    LET variables == IF remove_exclusions
                THEN compress(self.variables, not_each(self.exclude_from_analysis))
                ELSE self.variables
    IN  tally_rows_per_variable(df, variables, <<[j \in DOMAIN variables |-> 0], 0, 0>>)

SelectMultipleQuestion_tally(self, df, remove_exclusions) ==
    LET variables == IF remove_exclusions
                THEN compress(self.variables, not_each(self.exclude_from_analysis))
                ELSE self.variables
    IN  tally_rows(df, variables, <<[j \in DOMAIN variables |-> 0], 0, 0>>)

\* x/resp and x/sum(cts) divide Python integers: a zero denominator raises
SelectMultipleQuestion_frequency_table(self, df, show_question, ct, pct_respondents, pct_responses, remove_exclusions, show_totals) ==
    LET t == SelectMultipleQuestion_tally(self, df, remove_exclusions)
        cts == t[1]
        resp == t[2]
        data == (IF show_question
                 THEN <<SelectMultipleQuestion_get_choices(self, remove_exclusions)>>
                 ELSE << >>)
                \o (IF ct THEN <<cts>> ELSE << >>)
                \o (IF pct_respondents
                    THEN <<[i \in DOMAIN cts |-> format_pct(cts[i], resp)]>>
                    ELSE << >>)
                \o (IF pct_responses
                    THEN <<[i \in DOMAIN cts |-> format_pct(cts[i], sum(cts))]>>
                    ELSE << >>)
        cols == (IF show_question THEN <<"Answer">> ELSE << >>)
                \o (IF ct THEN <<"Count">> ELSE << >>)
                \o (IF pct_respondents THEN <<"% of respondents">> ELSE << >>)
                \o (IF pct_responses THEN <<"% of responses">> ELSE << >>)
        tots == (IF show_question THEN <<"Total respondents">> ELSE << >>)
                \o (IF ct THEN <<resp>> ELSE << >>)
                \o (IF pct_respondents THEN <<"">> ELSE << >>)
                \o (IF pct_responses THEN <<"">> ELSE << >>)
    IN  IF cts # << >> /\ ((pct_respondents /\ resp = 0) \/ (pct_responses /\ sum(cts) = 0))
        THEN Raise("ZeroDivisionError")
        ELSE Returns(table_of(data, cols, IF show_totals THEN <<tots>> ELSE << >>))

(***************************************************************************)
(* MatrixQuestion and its two concrete forms.  A matrix object holds the   *)
(* identities of its child questions; `heap` is the heap they live in.     *)
(***************************************************************************)
\* a reference to the matrix object at position m of the matrix heap
Ref(m) == [type |-> "MatrixQuestion", id |-> m]

\* x.same_choices(other), dispatched on the type of x
same_choices(x, other) ==
    IF x.type = "SelectOneQuestion"
    THEN /\ x.choices = other.choices
         /\ x.values = other.values
         /\ x.exclude_from_analysis = other.exclude_from_analysis
    ELSE /\ x.choices = other.choices
         /\ x.exclude_from_analysis = other.exclude_from_analysis

\* the child objects of a matrix, in order
children(self, heap) == [i \in DOMAIN self.questions |-> heap[self.questions[i]]]

assert_questions_same_type(qs) == \A i \in DOMAIN qs : qs[i].type = qs[1].type

assert_choices_same(qs) == \A i \in DOMAIN qs : same_choices(qs[i], qs[1])

\* __init__ up to the two assertions: the exception raised, or the object
MatrixQuestion_init(cls, text, label, ids, heap) ==
    LET self == [type |-> cls, text |-> text, questions |-> ids, label |-> label]
        qs == children(self, heap)
    IN  IF ~assert_questions_same_type(qs)
        THEN Raise("Questions in a matrix must all have the same type")
        ELSE IF ~assert_choices_same(qs)
        THEN Raise("Questions in a matrix must all have the same choices")
        ELSE Returns(self)

\* the heap after matrix m made itself the owning matrix of its children
assign_children_to_matrix(ids, m, heap) ==
    [q \in DOMAIN heap |->
        IF \E i \in DOMAIN ids : ids[i] = q
        THEN [heap[q] EXCEPT !.matrix = Ref(m)]
        ELSE heap[q]]

get_children_text(self, heap) == [i \in DOMAIN self.questions |-> heap[self.questions[i]].text]

SelectOneMatrixQuestion_get_choices(self, heap, remove_exclusions, show_values) ==
    LET qs == children(self, heap)
    IN  IF ~assert_choices_same(qs)
        THEN Raise("Questions in a matrix must all have the same choices")
        ELSE IF qs = << >> THEN Raise("IndexError")
        ELSE Returns(SelectOneQuestion_get_choices(qs[1], remove_exclusions, show_values))

SelectMultipleMatrixQuestion_get_choices(self, heap, remove_exclusions) ==
    LET qs == children(self, heap)
    IN  IF ~assert_choices_same(qs)
        THEN Raise("Questions in a matrix must all have the same choices")
        ELSE IF qs = << >> THEN Raise("IndexError")
        ELSE Returns(SelectMultipleQuestion_get_choices(qs[1], remove_exclusions))

\* .iloc[:,0].tolist(): the first column of a table
first_column(table) == [i \in DOMAIN table.rows |-> table.rows[i][1]]

\* The outcome of frequency_table and the heap it leaves.  get_choices
\* returns the first child's own list of choices when neither the
\* exclusions are removed nor the values shown, and "Total" is appended to
\* the list it returned.
SelectOneMatrixQuestion_frequency_table(self, heap, df, show, remove_exclusions, show_totals, show_mean) ==
    LET qs == children(self, heap)
        data == [i \in DOMAIN qs |->
                    first_column(SelectOneQuestion_frequency_table(
                        qs[i], df, FALSE, show = "ct", show = "pct",
                        remove_exclusions, show_totals, show_mean))]
        got == SelectOneMatrixQuestion_get_choices(self, heap, remove_exclusions, show_mean)
        tmpcols == got.ret
                   \o (IF show_totals THEN <<"Total">> ELSE << >>)
                   \o (IF show_mean THEN <<"Mean">> ELSE << >>)
        aliased == ~remove_exclusions /\ ~show_mean
        after == IF aliased
                 THEN [heap EXCEPT ![self.questions[1]].choices = tmpcols]
                 ELSE heap
    IN  IF show \notin {"ct", "pct"}
        THEN [raised |-> "Invalid 'show' parameter", ret |-> None, heap |-> heap]
        ELSE IF got.raised # ""
        THEN [raised |-> got.raised, ret |-> None, heap |-> heap]
        ELSE IF Len(tmpcols) # Len(data[1])
        THEN [raised |-> "ValueError", ret |-> None, heap |-> after]
        ELSE [raised |-> "",
              ret |-> [columns |-> <<"Question">> \o tmpcols,
                       rows |-> [i \in DOMAIN qs |-> <<qs[i].text>> \o data[i]]],
              heap |-> after]

\* `self.responses` is no attribute of the matrix
SelectMultipleMatrixQuestion_frequency_table(self, heap, df, show, remove_exclusions, show_totals) ==
    LET qs == children(self, heap)
        tables == [i \in DOMAIN qs |->
                     SelectMultipleQuestion_frequency_table(
                         qs[i], df, FALSE, TRUE, FALSE, FALSE, remove_exclusions, FALSE)]
        data == [i \in DOMAIN qs |-> first_column(tables[i].ret)]
        got == SelectMultipleMatrixQuestion_get_choices(self, heap, remove_exclusions)
        tots == [i \in DOMAIN qs |-> SelectMultipleQuestion_tally(qs[i], df, TRUE)[2]]
    IN  IF show \in {"pct_respondents", "pct_responses"}
        THEN Raise("AttributeError")
        ELSE IF show # "ct"
        THEN Raise("Invalid 'show' parameter")
        ELSE IF got.raised # ""
        THEN Raise(got.raised)
        ELSE IF Len(got.ret) # Len(data[1])
        THEN Raise("ValueError")
        ELSE Returns([columns |-> <<"Question">> \o got.ret
                         \o (IF show_totals THEN <<"Total Respondents">> ELSE << >>),
                      rows |-> [i \in DOMAIN qs |->
                         <<qs[i].text>> \o data[i]
                         \o (IF show_totals THEN <<tots[i]>> ELSE << >>)]])

(***************************************************************************)
(* Grouping and the significance tests.                                    *)
(*                                                                         *)
(* A groupby object is the sequence of its groups [key, rows], in          *)
(* increasing key order; rows with a missing key are in no group.  A       *)
(* p-value is NaN or Cell(p) with p in thousandths.                        *)
(***************************************************************************)
\* the i-th smallest element of a finite set of integers
RECURSIVE sorted(_)
sorted(S) ==
    IF S = {} THEN << >>
    ELSE LET least == CHOOSE x \in S : \A y \in S : x <= y
         IN  <<least>> \o sorted(S \ {least})

\* the rows of df whose cell in column by is cell, in order
RECURSIVE rows_where(_, _, _)
rows_where(df, by, cell) ==
    IF df = << >> THEN << >>
    ELSE (IF Head(df)[by] = cell THEN <<Head(df)>> ELSE << >>)
         \o rows_where(Tail(df), by, cell)

\* df.groupby(by), for a dataset that has the column
groupby(df, by) ==
    LET keys == sorted({df[i][by][1] : i \in {j \in DOMAIN df : df[j][by] # NaN}})
    IN  [g \in DOMAIN keys |->
            [key |-> keys[g],
             rows |-> rows_where(df, by, Cell(keys[g]))]]

\* the column with every cell holding v made missing:
\* df[column].replace(v, np.nan, inplace=True)
replace_with_nan(df, col, v) ==
    [i \in DOMAIN df |-> IF df[i][col] = Cell(v) THEN [df[i] EXCEPT ![col] = NaN] ELSE df[i]]

\* the p-values told apart: not a number, 0, and some on the two sides of
\* the levels .02 and .05
PValues == {NaN, Cell(0), Cell(10), Cell(30), Cell(400)}

\* p < level, false for a p that is not a number
below(p, level) == p # NaN /\ p[1] < level

\* every value of a sample is the same
constant(sample) == \A i, j \in DOMAIN sample : sample[i] = sample[j]

\* What ttest_ind(a, b, equal_var=False) can return as p: not a number for a
\* sample of fewer than two values (its variance is not a number) and for
\* two constant samples of one mean (0/0); 0 for two constant samples of
\* different means; any probability otherwise.
ttest_ind(a, b) ==
    IF Len(a) < 2 \/ Len(b) < 2 THEN {NaN}
    ELSE IF constant(a) /\ constant(b)
    THEN (IF a[1] = b[1] THEN {NaN} ELSE {Cell(0)})
    ELSE PValues \ {NaN, Cell(0)}

\* what f_oneway(*data) can return as p
f_oneway(data) == PValues

\* The test compare_groups runs and what it returns.  len(groupby) and
\* len(groupby.groups.keys()) are both the number of groups.
SelectOneQuestion_compare_groups(self, groups, pval, p) ==
    IF Len(groups) = 2
    THEN [test |-> "ttest_ind", p |-> p, ret |-> below(p, pval)]
    ELSE IF Cardinality({groups[g].key : g \in DOMAIN groups}) = 2
    THEN [test |-> "f_oneway", p |-> p, ret |-> below(p, 50)]
    ELSE [test |-> "", p |-> NaN, ret |-> FALSE]

\* the p-values the test of compare_groups can come to over the groups
SelectOneQuestion_p_values(self, groups) ==
    LET data == [g \in DOMAIN groups |-> dropna(column(groups[g].rows, self.variable))]
    IN  IF Len(groups) = 2 THEN ttest_ind(data[1], data[2])
        ELSE IF Cardinality({groups[g].key : g \in DOMAIN groups}) = 2
        THEN f_oneway(data)
        ELSE {NaN}

(***************************************************************************)
(* Cross-tabulation of a single-answer question.                           *)
(*                                                                         *)
(* A cross-tab is [index, columns, data]: the hierarchical keys of its     *)
(* rows and of its columns, pairs <<top, label>>, and its cells by row.    *)
(* A label the caller leaves out (None) is the empty string: the code      *)
(* tests it with `not`.                                                    *)
(* CHOOSE r \in {F(v) : v \in {e}} : TRUE is F(e), with e evaluated once.   *)
(***************************************************************************)
min(a, b) == IF a < b THEN a ELSE b

\* dict(zip(keys, labels)): the later of two equal keys wins
dict_zip(keys, labels) ==
    LET n == min(Len(keys), Len(labels))
    IN  [k \in {keys[i] : i \in 1..n} |->
            labels[CHOOSE i \in 1..n :
                      keys[i] = k /\ \A j \in 1..n : keys[j] = k => j <= i]]

\* t.set_index("Answer"); t.ix[:,0]: the first remaining column, keyed by
\* the answers
first_series(t) ==
    [index |-> [i \in DOMAIN t.rows |-> t.rows[i][1]],
     values |-> [i \in DOMAIN t.rows |-> t.rows[i][2]]]

\* pd.MultiIndex.from_arrays([top, labels]) of two arrays of one length
from_arrays(top, labels) == [i \in DOMAIN labels |-> <<top[i], labels[i]>>]

\* a list of n copies of x
repeat(x, n) == [i \in 1..n |-> x]

\* The DataFrame of the series with its hierarchical keys: one row per
\* series, named by names; the columns are the index of the series, the last
\* one starred; width is the length of the top-level column labels.
cross_tab(freqs, names, stars, cut_var_label, my_label, width) ==
    LET df_columns == IF freqs = << >> THEN << >> ELSE freqs[1].index
        labels == [i \in 1..min(Len(stars), Len(df_columns)) |->
                      IF stars[i] THEN df_columns[i] \o "*" ELSE df_columns[i]]
    IN  IF width # Len(labels)
        THEN Raise("ValueError")
        ELSE Returns([index |-> from_arrays(repeat(cut_var_label, Len(freqs)), names),
                      columns |-> from_arrays(repeat(my_label, width), labels),
                      data |-> [g \in DOMAIN freqs |-> freqs[g].values]])

\* the loop of cut_by over the groups: the list of the series
RECURSIVE SelectOneQuestion_cut_by_freqs(_, _, _, _)
SelectOneQuestion_cut_by_freqs(self, groups, remove_exclusions, show_mean) ==
    IF groups = << >> THEN << >>
    ELSE <<CHOOSE series \in
              {first_series(t) : t \in
                  {SelectOneQuestion_frequency_table(self, Head(groups).rows, TRUE, FALSE,
                      TRUE, remove_exclusions, FALSE, show_mean)}} : TRUE>>
         \o SelectOneQuestion_cut_by_freqs(self, Tail(groups), remove_exclusions, show_mean)

\* p is what the test of compare_groups comes to over these groups
SelectOneQuestion_cut_by(self, groups, group_label_mapping, cut_var_label, question_label, remove_exclusions, show_mean, p) ==
    LET names == [g \in DOMAIN groups |-> group_label_mapping[groups[g].key]]
        starred == show_mean
                   /\ SelectOneQuestion_compare_groups(self, groups, 50, p).ret
        my_label == IF question_label # "" THEN question_label ELSE self.text
        width == Len(self.choices) + (IF show_mean THEN 1 ELSE 0)
    IN  IF \E g \in DOMAIN groups : groups[g].key \notin DOMAIN group_label_mapping
        THEN Raise("KeyError")
        ELSE CHOOSE out \in
                {cross_tab(freqs,
                           names,
                           IF freqs = << >> THEN << >>
                           ELSE [i \in DOMAIN freqs[1].index |->
                                    starred /\ i = Len(freqs[1].index)],
                           cut_var_label, my_label, width) :
                 freqs \in {SelectOneQuestion_cut_by_freqs(self, groups, remove_exclusions,
                                                           show_mean)}} : TRUE

\* the message of the exception for a grouping question of another type
OnlySelectOne == "Can only call cut_by_question on a SelectOneQuestion type"

\* the values of the grouping question that are left out of the analysis
values_to_drop(other_question) ==
    compress(SubSeq(other_question.values, 1,
                    min(Len(other_question.values),
                        Len(other_question.exclude_from_analysis))),
             other_question.exclude_from_analysis)

\* the working copy after the loop that makes the dropped values missing
RECURSIVE drop_values(_, _, _)
drop_values(df, col, values) ==
    IF values = << >> THEN df
    ELSE drop_values(replace_with_nan(df, col, Head(values)), col, Tail(values))

\* a slip: the type of the grouping question looked at after the working
\* copy was made
SelectOneQuestion_cut_groups_copy_first(other_question, response_set_, remove_exclusions) ==
    IF other_question.type # "SelectOneQuestion"
    THEN [raised |-> OnlySelectOne, steps |-> <<"copy">>, groups |-> << >>]
    ELSE [raised |-> "", steps |-> <<"copy", "groupby">>,
          groups |-> groupby(response_set_, other_question.label)]

\* What cut_by_question has at the grouping: the exception of a column that
\* is not there, or the groups.  `steps` are the stages entered.
SelectOneQuestion_cut_groups(other_question, response_set_, remove_exclusions) ==
    IF other_question.type # "SelectOneQuestion"
    THEN [raised |-> OnlySelectOne, steps |-> << >>, groups |-> << >>]
    ELSE LET dropped == IF remove_exclusions THEN values_to_drop(other_question)
                        ELSE << >>
         IN  IF dropped # << >> /\ other_question.variable \notin columns(response_set_)
             THEN [raised |-> "KeyError", steps |-> <<"copy">>, groups |-> << >>]
             ELSE IF other_question.label \notin columns(response_set_)
             THEN [raised |-> "KeyError", steps |-> <<"copy", "groupby">>,
                   groups |-> << >>]
             ELSE [raised |-> "", steps |-> <<"copy", "groupby">>,
                   groups |-> groupby(drop_values(response_set_, other_question.variable,
                                                  dropped),
                                      other_question.label)]

SelectOneQuestion_cut_by_question(self, other_question, response_set_, cut_var_label, question_label, remove_exclusions, show_mean, p) ==
    LET at == SelectOneQuestion_cut_groups(other_question, response_set_, remove_exclusions)
        group_mapping == dict_zip(other_question.values, other_question.choices)
        oth_text == IF cut_var_label # "" THEN cut_var_label ELSE other_question.text
    IN  IF at.raised # ""
        THEN [raised |-> at.raised, ret |-> None, steps |-> at.steps, groups |-> << >>]
        ELSE SelectOneQuestion_cut_by(self, at.groups, group_mapping, oth_text,
                                      question_label, remove_exclusions, show_mean, p)
             @@ [steps |-> at.steps \o <<"cut_by">>, groups |-> at.groups]

(***************************************************************************)
(* Cross-tabulation of a multi-answer question.                            *)
(***************************************************************************)
\* The 1 - pval quantile of the chi-square distribution with dof degrees of
\* freedom, in thousandths, for the levels .05, .5 and .01.
chi2_critical(dof, pval) ==
    IF pval = 50 THEN <<3841, 5991, 7815, 9488>>[dof]
    ELSE IF pval = 500 THEN <<455, 1386, 2366, 3357>>[dof]
    ELSE <<6635, 9210, 11345, 13277>>[dof]

RECURSIVE product(_)
product(s) == IF s = << >> THEN 1 ELSE Head(s) * product(Tail(s))

\* chisquare(f_obs, f_exp)[1] < pval, where f_exp[g] = (total / n) * ct[g]:
\* the statistic sum((f_obs - f_exp)^2 / f_exp) is over the critical value.
\* An expected count of 0 makes the statistic, and p, not a number; so
\* does a single group (no degree of freedom).
chisquare_below(f_obs, total, n, ct_by_cut, pval) ==
    IF Len(f_obs) < 2 \/ total = 0 \/ \E g \in DOMAIN ct_by_cut : ct_by_cut[g] = 0
    THEN FALSE
    ELSE LET others(g) == product([h \in DOMAIN ct_by_cut |->
                                      IF h = g THEN 1 ELSE ct_by_cut[h]])
             num == sum([g \in DOMAIN f_obs |->
                            (f_obs[g] * n - ct_by_cut[g] * total)
                            * (f_obs[g] * n - ct_by_cut[g] * total) * others(g)])
         IN  1000 * num > chi2_critical(Len(f_obs) - 1, pval) * n * total * product(ct_by_cut)

SelectMultipleQuestion_compare_groups(self, groups, remove_exclusions, pval) ==
    LET t(g) == SelectMultipleQuestion_tally(self, groups[g].rows, remove_exclusions)
        obs_by_cut == [g \in DOMAIN groups |-> t(g)[1]]
        ct_by_cut == [g \in DOMAIN groups |-> t(g)[2]]
        n_choices == IF obs_by_cut = << >> THEN 0 ELSE Len(obs_by_cut[1])
        choice_totals == [c \in 1..n_choices |->
                             sum([g \in DOMAIN groups |-> obs_by_cut[g][c]])]
    IN  IF n_choices > 0 /\ sum(ct_by_cut) = 0
        THEN Raise("ZeroDivisionError")
        ELSE Returns([c \in 1..n_choices |->
                         chisquare_below([g \in DOMAIN groups |-> obs_by_cut[g][c]],
                                         choice_totals[c], sum(ct_by_cut), ct_by_cut,
                                         pval)])

\* the loop of cut_by over the groups: the list of the series, or the
\* exception of the first group that has one
RECURSIVE SelectMultipleQuestion_cut_by_freqs(_, _, _, _, _)
SelectMultipleQuestion_cut_by_freqs(self, groups, group_label_mapping, remove_exclusions, freqs) ==
    IF groups = << >> THEN Returns(freqs)
    ELSE CHOOSE out \in
            {IF t.raised # "" THEN t
             ELSE IF Head(groups).key \notin DOMAIN group_label_mapping
             THEN Raise("KeyError")
             ELSE SelectMultipleQuestion_cut_by_freqs(self, Tail(groups),
                     group_label_mapping, remove_exclusions,
                     Append(freqs, first_series(t.ret))) :
             t \in {SelectMultipleQuestion_frequency_table(self, Head(groups).rows, TRUE,
                       FALSE, TRUE, FALSE, remove_exclusions, FALSE)}} : TRUE

SelectMultipleQuestion_cut_by(self, groups, group_label_mapping, cut_var_label, question_label, remove_exclusions) ==
    LET names == [g \in DOMAIN groups |-> group_label_mapping[groups[g].key]]
        my_label == IF question_label # "" THEN question_label ELSE self.text
    IN  CHOOSE out \in
           {IF freqs.raised # "" THEN freqs
            ELSE IF sigs.raised # "" THEN sigs
            ELSE cross_tab(freqs.ret, names, sigs.ret, cut_var_label, my_label,
                           Len(self.choices)) :
            freqs \in {SelectMultipleQuestion_cut_by_freqs(self, groups,
                          group_label_mapping, remove_exclusions, << >>)},
            sigs \in {SelectMultipleQuestion_compare_groups(self, groups,
                          remove_exclusions, 50)}} : TRUE

SelectMultipleQuestion_cut_by_question(self, other_question, response_set_, cut_var_label, question_label, remove_exclusions) ==
    LET at == SelectOneQuestion_cut_groups(other_question, response_set_, remove_exclusions)
        group_mapping == dict_zip(other_question.values, other_question.choices)
        oth_text == IF cut_var_label # "" THEN cut_var_label ELSE other_question.text
    IN  IF at.raised # ""
        THEN [raised |-> at.raised, ret |-> None, steps |-> at.steps, groups |-> << >>]
        ELSE SelectMultipleQuestion_cut_by(self, at.groups, group_mapping, oth_text,
                                           question_label, remove_exclusions)
             @@ [steps |-> at.steps \o <<"cut_by">>, groups |-> at.groups]

(***************************************************************************)
(* Cross-tabulation of a matrix of single-answer questions.                *)
(***************************************************************************)
\* r.T: rows and columns change places
transpose(r) ==
    [index |-> r.columns,
     columns |-> r.index,
     data |-> [i \in DOMAIN r.columns |-> [j \in DOMAIN r.index |-> r.data[j][i]]]]

\* pd.concat(results) of cross-tabs over the same columns
RECURSIVE concat(_)
concat(results) ==
    IF Len(results) = 1 THEN results[1]
    ELSE CHOOSE df \in
            {[index |-> results[1].index \o rest.index,
              columns |-> results[1].columns,
              data |-> results[1].data \o rest.data] :
             rest \in {concat(Tail(results))}} : TRUE

\* the loop of cut_by over the children: the list of the transposed
\* cross-tabs, or the exception of the first child that has one; ps[i] is
\* what the test of compare_groups comes to for child i
RECURSIVE SelectOneMatrixQuestion_cut_by_results(_, _, _, _, _, _, _, _, _, _)
SelectOneMatrixQuestion_cut_by_results(qs, labels, groups, group_label_mapping, cut_var_label, remove_exclusions, show_mean, ps, i, results) ==
    IF i > min(Len(qs), Len(labels)) THEN Returns(results)
    ELSE CHOOSE out \in
            {IF r.raised # "" THEN r
             ELSE SelectOneMatrixQuestion_cut_by_results(qs, labels, groups,
                     group_label_mapping, cut_var_label, remove_exclusions, show_mean,
                     ps, i + 1, Append(results, transpose(r.ret))) :
             r \in {SelectOneQuestion_cut_by(qs[i], groups, group_label_mapping,
                       cut_var_label, labels[i], remove_exclusions, show_mean,
                       ps[i])}} : TRUE

SelectOneMatrixQuestion_cut_by(self, heap, groups, group_label_mapping, cut_var_label, question_labels, remove_exclusions, show_mean, ps) ==
    LET labels == IF question_labels # << >> THEN question_labels
                  ELSE get_children_text(self, heap)
    IN  CHOOSE out \in
           {IF results.raised # "" THEN results
            ELSE IF results.ret = << >> THEN Raise("ValueError")
            ELSE Returns(concat(results.ret)) :
            results \in {SelectOneMatrixQuestion_cut_by_results(children(self, heap),
                            labels, groups, group_label_mapping, cut_var_label,
                            remove_exclusions, show_mean, ps, 1, << >>)}} : TRUE

\* no working copy here: the caller's dataset is grouped as it is
SelectOneMatrixQuestion_cut_groups(other_question, response_set_) ==
    IF other_question.type # "SelectOneQuestion"
    THEN [raised |-> OnlySelectOne, steps |-> << >>, groups |-> << >>]
    ELSE IF other_question.label \notin columns(response_set_)
    THEN [raised |-> "KeyError", steps |-> <<"groupby">>, groups |-> << >>]
    ELSE [raised |-> "", steps |-> <<"groupby">>,
          groups |-> groupby(response_set_, other_question.label)]

SelectOneMatrixQuestion_cut_by_question(self, heap, other_question, response_set_, cut_var_label, question_labels, remove_exclusions, show_mean, ps) ==
    LET at == SelectOneMatrixQuestion_cut_groups(other_question, response_set_)
        group_mapping == dict_zip(other_question.values, other_question.choices)
        oth_text == IF cut_var_label # "" THEN cut_var_label ELSE other_question.text
    IN  IF at.raised # ""
        THEN [raised |-> at.raised, ret |-> None, steps |-> at.steps, groups |-> << >>]
        ELSE SelectOneMatrixQuestion_cut_by(self, heap, at.groups, group_mapping, oth_text,
                                            question_labels, remove_exclusions, show_mean,
                                            ps)
             @@ [steps |-> at.steps \o <<"cut_by">>, groups |-> at.groups]

(***************************************************************************)
(* Inputs: codebooks and datasets.                                         *)
(***************************************************************************)
\* the cells of an answer column of a single-answer question
Cells == {NaN} \cup {Cell(v) : v \in ValuePool}

\* the cells of a choice column of a multi-answer question: a presence flag
Flags == {NaN, Cell(1)}

\* every dataset of at most n rows, rows being the functions in `rows`
Datasets(rows, n) == UNION {[1..k -> rows] : k \in 0..n}

\* choice sets <<labels, values, exclusion flags>> of equal lengths, the
\* values distinct and listed in increasing order
ChoiceSets ==
    UNION {{<<SubSeq(LabelPool, 1, n), v, x>> :
              v \in {f \in [1..n -> ValuePool] :
                       \A i, j \in 1..n : i < j => f[i] < f[j]},
              x \in [1..n -> BOOLEAN]} : n \in 0..Len(LabelPool)}

(***************************************************************************)
(* Calls are synchronous: the caller makes one call at a time, and takes   *)
(* the returned value (or the exception) before it makes the next one.     *)
(***************************************************************************)
NoCall == [op |-> "none"]

Idle == result = NoCall

Return ==
    /\ ~Idle
    /\ result' = NoCall
    /\ UNCHANGED <<questions, matrices, response_set>>

(***************************************************************************)
(* Calls on a single-answer question.                                      *)
(***************************************************************************)
SelectOneTally(q, remove_exclusions) ==
    /\ Idle
    /\ questions[q].type = "SelectOneQuestion"
    /\ result' = [op |-> "SelectOneQuestion.tally", self |-> q,
                  remove_exclusions |-> remove_exclusions,
                  raised |-> "",
                  ret |-> SelectOneQuestion_tally(questions[q], response_set,
                                                  remove_exclusions)]
    /\ UNCHANGED <<questions, matrices, response_set>>

SelectOneMean(q, remove_exclusions) ==
    /\ Idle
    /\ questions[q].type = "SelectOneQuestion"
    /\ result' = [op |-> "SelectOneQuestion.mean", self |-> q,
                  remove_exclusions |-> remove_exclusions,
                  raised |-> "",
                  ret |-> SelectOneQuestion_mean(questions[q], response_set,
                                                 remove_exclusions)]
    /\ UNCHANGED <<questions, matrices, response_set>>

\* the option combinations of frequency_table: its defaults, and the ones
\* cut_by and the matrix pass
SelectOneTableOptions ==
    {o \in [show_question : BOOLEAN, ct : BOOLEAN, pct : BOOLEAN,
            show_totals : BOOLEAN, show_mean : BOOLEAN] :
        \/ o.show_question /\ o.ct /\ o.pct /\ o.show_totals /\ o.show_mean
        \/ o.show_question /\ ~o.ct /\ o.pct /\ ~o.show_totals
        \/ ~o.show_question /\ (o.ct # o.pct) /\ o.show_totals /\ o.show_mean}

SelectOneFrequencyTable(q, o, remove_exclusions) ==
    /\ Idle
    /\ questions[q].type = "SelectOneQuestion"
    /\ result' = [op |-> "SelectOneQuestion.frequency_table", self |-> q,
                  remove_exclusions |-> remove_exclusions,
                  ct |-> o.ct, pct |-> o.pct, show_question |-> o.show_question,
                  show_totals |-> o.show_totals, show_mean |-> o.show_mean,
                  raised |-> "",
                  ret |-> SelectOneQuestion_frequency_table(
                              questions[q], response_set, o.show_question, o.ct,
                              o.pct, remove_exclusions, o.show_totals, o.show_mean)]
    /\ UNCHANGED <<questions, matrices, response_set>>

(***************************************************************************)
(* Specification of the single-answer tabulation: one question built by    *)
(* the loader, one dataset holding its answer column.                      *)
(***************************************************************************)
InitOne ==
    /\ \E c \in ChoiceSets :
          questions = [q \in {"q1"} |->
              SelectOneQuestion("Q1", "v1", c[1], "v1", c[2], c[3], None)]
    /\ matrices = << >>
    /\ response_set \in Datasets([{"v1"} -> Cells], MaxRows)
    /\ result = NoCall

NextOne ==
    \/ \E q \in DOMAIN questions, remove_exclusions \in BOOLEAN :
          SelectOneTally(q, remove_exclusions)
    \/ \E q \in DOMAIN questions, remove_exclusions \in BOOLEAN :
          SelectOneMean(q, remove_exclusions)
    \/ \E q \in DOMAIN questions, remove_exclusions \in BOOLEAN,
           o \in SelectOneTableOptions :
          SelectOneFrequencyTable(q, o, remove_exclusions)
    \/ Return

SpecOne == InitOne /\ [][NextOne]_vars

(***************************************************************************)
(* Properties of the single-answer tabulation.                             *)
(***************************************************************************)
\* the values of the choices a tabulation retains
RetainedValues(self, remove_exclusions) ==
    {self.values[i] : i \in {j \in DOMAIN self.values :
        ~(remove_exclusions /\ self.exclude_from_analysis[j])}}

\* the rows of the dataset whose answer to the question is one of `values`
RowsAnswering(self, df, values) ==
    {i \in DOMAIN df : \E v \in values : df[i][self.variable] = Cell(v)}

\* the whole percent a cell of the "%" column shows
ParsePct(cell) == CHOOSE k \in 0..100 : ToString(k) \o "%" = cell

\* the "%" cells of the answer rows of a frequency table with a "%" column
ShownPercents(table, n) ==
    LET j == CHOOSE k \in DOMAIN table.columns : table.columns[k] = "%"
    IN  [i \in 1..n |-> ParsePct(table.rows[i][j])]

TallyAccountsForRows ==
    result.op = "SelectOneQuestion.tally" =>
        /\ result.ret[2] = sum(result.ret[1])
        /\ sum(result.ret[1]) + result.ret[3] = Len(response_set)

\* C1 as claimed: tally returns respondents = sum(counts) and sum(counts) +
\* nonrespondents = number of rows, and the percent cells frequency_table
\* shows add up to exactly 100% whenever there are respondents.
C1_AsClaimed ==
    /\ TallyAccountsForRows
    /\ (result.op = "SelectOneQuestion.frequency_table" /\ result.pct) =>
          LET t == SelectOneQuestion_tally(questions[result.self], response_set,
                                           result.remove_exclusions)
          IN  t[2] > 0 => sum(ShownPercents(result.ret, Len(t[1]))) = 100

\* C1 as amended: tally returns respondents = sum(counts) and sum(counts) +
\* nonrespondents = number of rows; whenever there are respondents the exact
\* shares count/respondents add up to 1, and the whole-percent cells that
\* frequency_table shows are those shares rounded, which add up to 100%
\* within rounding: at most half a point off per retained choice.
C1_TallyPartitionsRows ==
    /\ TallyAccountsForRows
    /\ (result.op = "SelectOneQuestion.frequency_table" /\ result.pct) =>
          LET t == SelectOneQuestion_tally(questions[result.self], response_set,
                                           result.remove_exclusions)
              n == Len(t[1])
              shown == ShownPercents(result.ret, n)
              off == sum(shown) - 100
          IN  t[2] > 0 =>
                /\ sum(t[1]) = t[2]
                /\ \A i \in 1..n :
                      /\ 2 * (100 * t[1][i] - shown[i] * t[2]) <= t[2]
                      /\ 2 * (shown[i] * t[2] - 100 * t[1][i]) <= t[2]
                /\ 2 * off <= n
                /\ 2 * (0 - off) <= n

\* C1's case: a percent table over a dataset with a missing answer and an
\* answer to an excluded choice, the exclusions removed, two or more
\* choices retained and one of them answered.
C1_Witness ==
    /\ result.op = "SelectOneQuestion.frequency_table"
    /\ result.pct
    /\ result.remove_exclusions
    /\ LET self == questions[result.self]
           t == SelectOneQuestion_tally(self, response_set, TRUE)
       IN  /\ Len(t[1]) >= 2
           /\ \E i \in DOMAIN t[1] : t[1][i] > 0
           /\ RowsAnswering(self, response_set,
                            RetainedValues(self, FALSE) \ RetainedValues(self, TRUE)) # {}
           /\ \E i \in DOMAIN response_set : response_set[i][self.variable] = NaN

\* C3: mean returns the not-a-number sentinel when no row answers a retained
\* choice, and otherwise the sum of the retained answers divided by the
\* number of rows that gave one; it never raises.
C3_MeanOfRetainedAnswers ==
    result.op = "SelectOneQuestion.mean" =>
        LET self == questions[result.self]
            rows == RowsAnswering(self, response_set,
                                  RetainedValues(self, result.remove_exclusions))
            answer(i) == response_set[i][self.variable][1]
            total == sum([k \in 1..Len(response_set) |->
                            IF k \in rows THEN answer(k) ELSE 0])
        IN  /\ result.raised = ""
            /\ rows = {} => result.ret = NaN
            /\ rows # {} => result.ret = <<total, Cardinality(rows)>>

\* C3's case: the mean of a dataset whose every row answers an excluded
\* choice or nothing, the exclusions removed: zero respondents.
C3_Witness ==
    /\ result.op = "SelectOneQuestion.mean"
    /\ result.remove_exclusions
    /\ result.ret = NaN
    /\ Len(response_set) >= 2
    /\ LET self == questions[result.self]
       IN  RowsAnswering(self, response_set, RetainedValues(self, FALSE)) # {}

\* C8 as claimed: the respondent and non-respondent counts tally returns are
\* the same with and without the exclusions removed, and the counts cover
\* the retained choices in order, 0 for a value absent from the data.
C8_AsClaimed ==
    result.op = "SelectOneQuestion.tally" =>
        LET self == questions[result.self]
            other == SelectOneQuestion_tally(self, response_set,
                                             ~result.remove_exclusions)
            values == IF result.remove_exclusions
                      THEN compress(self.values, not_each(self.exclude_from_analysis))
                      ELSE self.values
        IN  /\ result.ret[2] = other[2]
            /\ result.ret[3] = other[3]
            /\ Len(result.ret[1]) = Len(values)
            /\ \A i \in DOMAIN values :
                  result.ret[1][i] =
                      Cardinality(RowsAnswering(self, response_set, {values[i]}))

\* C8 as amended: tally takes the split from the retained choices: the
\* respondents are the rows that answer a retained choice and every other
\* row (missing, unlisted or, with the exclusions removed, excluded) is a
\* non-respondent; only their sum, the number of rows, is the same for both
\* settings.  The counts cover the retained choices in order, 0 for a value
\* absent from the data.
C8_SplitOverRetainedChoices ==
    result.op = "SelectOneQuestion.tally" =>
        LET self == questions[result.self]
            rx == result.remove_exclusions
            values == IF rx
                      THEN compress(self.values, not_each(self.exclude_from_analysis))
                      ELSE self.values
            resp(b) == Cardinality(RowsAnswering(self, response_set,
                                                 RetainedValues(self, b)))
            excluded == RetainedValues(self, FALSE) \ RetainedValues(self, TRUE)
        IN  /\ result.ret[2] = resp(rx)
            /\ result.ret[3] = Len(response_set) - resp(rx)
            /\ resp(TRUE) = resp(FALSE)
                   - Cardinality(RowsAnswering(self, response_set, excluded))
            /\ Len(result.ret[1]) = Len(values)
            /\ \A i \in DOMAIN values :
                  result.ret[1][i] =
                      Cardinality(RowsAnswering(self, response_set, {values[i]}))

\* C8's case: a tally with the exclusions removed over a dataset in which a
\* row answers an excluded choice and a retained choice has no answer.
C8_Witness ==
    /\ result.op = "SelectOneQuestion.tally"
    /\ result.remove_exclusions
    /\ LET self == questions[result.self]
       IN  /\ result.ret[2] < SelectOneQuestion_tally(self, response_set, FALSE)[2]
           /\ \E i \in DOMAIN result.ret[1] : result.ret[1][i] = 0
           /\ \E i \in DOMAIN result.ret[1] : result.ret[1][i] > 0

(***************************************************************************)
(* Calls on a multi-answer question.                                       *)
(***************************************************************************)
SelectMultipleTally(q, remove_exclusions) ==
    /\ Idle
    /\ questions[q].type = "SelectMultipleQuestion"
    /\ result' = [op |-> "SelectMultipleQuestion.tally", self |-> q,
                  remove_exclusions |-> remove_exclusions,
                  raised |-> "",
                  ret |-> SelectMultipleQuestion_tally(questions[q], response_set,
                                                       remove_exclusions)]
    /\ UNCHANGED <<questions, matrices, response_set>>

\* the option combinations of frequency_table: its defaults, and the ones
\* cut_by and the matrix pass
SelectMultipleTableOptions ==
    {o \in [show_question : BOOLEAN, ct : BOOLEAN, pct_respondents : BOOLEAN,
            pct_responses : BOOLEAN, show_totals : BOOLEAN] :
        \/ o.show_question /\ o.ct /\ o.pct_respondents /\ ~o.pct_responses
               /\ o.show_totals
        \/ o.show_question /\ ~o.ct /\ o.pct_respondents /\ ~o.pct_responses
               /\ ~o.show_totals
        \/ ~o.show_question /\ ~o.show_totals
               /\ Cardinality({k \in {"ct", "pct_respondents", "pct_responses"} : o[k]}) = 1}

SelectMultipleFrequencyTable(q, o, remove_exclusions) ==
    /\ Idle
    /\ questions[q].type = "SelectMultipleQuestion"
    /\ LET out == SelectMultipleQuestion_frequency_table(
                      questions[q], response_set, o.show_question, o.ct,
                      o.pct_respondents, o.pct_responses, remove_exclusions,
                      o.show_totals)
       IN  result' = [op |-> "SelectMultipleQuestion.frequency_table", self |-> q,
                      remove_exclusions |-> remove_exclusions, options |-> o,
                      raised |-> out.raised, ret |-> out.ret]
    /\ UNCHANGED <<questions, matrices, response_set>>

(***************************************************************************)
(* Specification of the multi-answer tabulation: one question built by the *)
(* loader, one dataset holding its choice columns.                         *)
(***************************************************************************)
InitMulti ==
    /\ \E n \in 0..Len(VarPool) : \E x \in [1..n -> BOOLEAN] :
          /\ questions = [q \in {"q1"} |->
                SelectMultipleQuestion("Q1", SubSeq(VarPool, 1, n),
                                       SubSeq(LabelPool, 1, n), "q1", x, None)]
          /\ response_set \in
                Datasets([{VarPool[j] : j \in 1..n} -> Flags], MaxRows)
    /\ matrices = << >>
    /\ result = NoCall

NextMulti ==
    \/ \E q \in DOMAIN questions, remove_exclusions \in BOOLEAN :
          SelectMultipleTally(q, remove_exclusions)
    \/ \E q \in DOMAIN questions, remove_exclusions \in BOOLEAN,
           o \in SelectMultipleTableOptions :
          SelectMultipleFrequencyTable(q, o, remove_exclusions)
    \/ Return

SpecMulti == InitMulti /\ [][NextMulti]_vars

\* C2: the multi-answer tally classifies each row exactly once: a row whose
\* tracked variables are all missing is one non-respondent and adds to no
\* count; a row with a present variable is one respondent, however many are
\* present, and adds 1 to the count of each choice whose variable is
\* present; so respondents + nonrespondents = number of rows and no count
\* exceeds the respondents.
C2_EachRowClassifiedOnce ==
    result.op = "SelectMultipleQuestion.tally" =>
        LET self == questions[result.self]
            tracked == {j \in DOMAIN self.variables :
                          ~(result.remove_exclusions /\ self.exclude_from_analysis[j])}
            present(i) == {j \in tracked : response_set[i][self.variables[j]] # NaN}
            rows == DOMAIN response_set
            cts == result.ret[1]
            variables == IF result.remove_exclusions
                    THEN compress(self.variables, not_each(self.exclude_from_analysis))
                    ELSE self.variables
        IN  /\ result.ret[3] = Cardinality({i \in rows : present(i) = {}})
            /\ result.ret[2] = Cardinality({i \in rows : present(i) # {}})
            /\ Len(cts) = Cardinality(tracked)
            /\ \A k \in DOMAIN cts :
                  /\ cts[k] = Cardinality({i \in rows :
                                  response_set[i][variables[k]] # NaN})
                  /\ cts[k] <= result.ret[2]
            /\ result.ret[2] + result.ret[3] = Len(response_set)

\* C2's case: a tally over a dataset with a row that has every variable
\* missing and a row that has two variables present.
C2_Witness ==
    /\ result.op = "SelectMultipleQuestion.tally"
    /\ LET self == questions[result.self]
           present(i) == {j \in DOMAIN self.variables :
                            response_set[i][self.variables[j]] # NaN}
       IN  /\ \E i \in DOMAIN response_set : present(i) = {}
           /\ \E i \in DOMAIN response_set : Cardinality(present(i)) >= 2
           /\ result.ret[2] >= 1
           /\ result.ret[3] >= 1

(***************************************************************************)
(* Matrix construction and calls on a matrix.                              *)
(***************************************************************************)
\* MatrixQuestion.__init__: the caller builds the concrete form that goes
\* with its children (a SelectOneMatrixQuestion of single-answer rows).
\* a construction attempt by a caller that builds at most `most` matrices
MatrixQuestionNew(cls, ids, most) ==
    /\ Idle
    /\ Len(matrices) < most
    /\ ids # << >> =>
          cls = (IF questions[ids[1]].type = "SelectOneQuestion"
                 THEN "SelectOneMatrixQuestion" ELSE "SelectMultipleMatrixQuestion")
    /\ LET out == MatrixQuestion_init(cls, "Matrix", "m", ids, questions)
           m == Len(matrices) + 1
       IN  /\ result' = [op |-> "MatrixQuestion.__init__", cls |-> cls,
                         questions |-> ids, raised |-> out.raised,
                         ret |-> IF out.raised = "" THEN Ref(m) ELSE None]
           /\ matrices' = IF out.raised = "" THEN Append(matrices, out.ret)
                          ELSE matrices
           /\ questions' = IF out.raised = ""
                           THEN assign_children_to_matrix(ids, m, questions)
                           ELSE questions
    /\ UNCHANGED response_set

NewMatrix(cls, ids) == MatrixQuestionNew(cls, ids, MaxMatrices)

SelectOneMatrixGetChoices(m, remove_exclusions, show_values) ==
    /\ Idle
    /\ matrices[m].type = "SelectOneMatrixQuestion"
    /\ LET out == SelectOneMatrixQuestion_get_choices(matrices[m], questions,
                                                      remove_exclusions, show_values)
       IN  result' = [op |-> "MatrixQuestion.get_choices", self |-> m,
                      remove_exclusions |-> remove_exclusions,
                      show_values |-> show_values,
                      raised |-> out.raised, ret |-> out.ret]
    /\ UNCHANGED <<questions, matrices, response_set>>

SelectMultipleMatrixGetChoices(m, remove_exclusions) ==
    /\ Idle
    /\ matrices[m].type = "SelectMultipleMatrixQuestion"
    /\ LET out == SelectMultipleMatrixQuestion_get_choices(matrices[m], questions,
                                                           remove_exclusions)
       IN  result' = [op |-> "MatrixQuestion.get_choices", self |-> m,
                      remove_exclusions |-> remove_exclusions,
                      show_values |-> FALSE,
                      raised |-> out.raised, ret |-> out.ret]
    /\ UNCHANGED <<questions, matrices, response_set>>

\* values of `show` a caller passes: the modes of either form, and another
Shows == {"ct", "pct", "pct_respondents", "pct_responses", "all"}

SelectOneMatrixFrequencyTable(m, show, remove_exclusions, show_totals, show_mean) ==
    /\ Idle
    /\ matrices[m].type = "SelectOneMatrixQuestion"
    /\ LET out == SelectOneMatrixQuestion_frequency_table(
                      matrices[m], questions, response_set, show,
                      remove_exclusions, show_totals, show_mean)
       IN  /\ \A q \in DOMAIN out.heap :
                 out.heap[q].type = "SelectOneQuestion" =>
                    Len(out.heap[q].choices) <= Len(out.heap[q].values) + MaxAppends
           /\ result' = [op |-> "MatrixQuestion.frequency_table", self |-> m,
                         show |-> show, remove_exclusions |-> remove_exclusions,
                         show_totals |-> show_totals, show_mean |-> show_mean,
                         raised |-> out.raised, ret |-> out.ret]
           /\ questions' = out.heap
    /\ UNCHANGED <<matrices, response_set>>

SelectMultipleMatrixFrequencyTable(m, show, remove_exclusions, show_totals) ==
    /\ Idle
    /\ matrices[m].type = "SelectMultipleMatrixQuestion"
    /\ LET out == SelectMultipleMatrixQuestion_frequency_table(
                      matrices[m], questions, response_set, show,
                      remove_exclusions, show_totals)
       IN  result' = [op |-> "MatrixQuestion.frequency_table", self |-> m,
                      show |-> show, remove_exclusions |-> remove_exclusions,
                      show_totals |-> show_totals, show_mean |-> FALSE,
                      raised |-> out.raised, ret |-> out.ret]
    /\ UNCHANGED <<questions, matrices, response_set>>

(***************************************************************************)
(* Specification of the matrices: two questions built by the loader, the   *)
(* first with the base choice set, the second of either type and with a    *)
(* choice set that is the same or differs in its labels, values, flags or  *)
(* length; a dataset holding their columns, empty or of two respondents,   *)
(* one answering everything and one nothing.                               *)
(***************************************************************************)
BaseChoiceSet == <<<<"Yes", "No">>, <<1, 2>>, <<FALSE, TRUE>>>>

MatrixChoiceSets ==
    {BaseChoiceSet,
     <<<<"Yes", "DK">>, <<1, 2>>, <<FALSE, TRUE>>>>,
     <<<<"Yes", "No">>, <<1, 3>>, <<FALSE, TRUE>>>>,
     <<<<"Yes", "No">>, <<1, 2>>, <<FALSE, FALSE>>>>,
     <<<<"Yes", "No", "DK">>, <<1, 2, 3>>, <<FALSE, TRUE, FALSE>>>>}

\* the question of row k of a grid, of the given type and choice set
RowQuestion(k, type, c) ==
    IF type = "SelectOneQuestion"
    THEN SelectOneQuestion("Row " \o ToString(k), "v" \o ToString(k), c[1],
                           "v" \o ToString(k), c[2], c[3], None)
    ELSE SelectMultipleQuestion("Row " \o ToString(k),
                                [j \in DOMAIN c[1] |-> VarPool[j] \o ToString(k)],
                                c[1], "m" \o ToString(k), c[3], None)

get_variable_names(self) ==
    IF self.type = "SelectOneQuestion"
    THEN {self.variable}
    ELSE {self.variables[j] : j \in DOMAIN self.variables}

QuestionTypes == {"SelectOneQuestion", "SelectMultipleQuestion"}

\* the choice sets a question of the type can have: a multi-answer question
\* has one choice column per choice, and no values
ChoiceSetsOf(type) ==
    IF type = "SelectOneQuestion" THEN MatrixChoiceSets
    ELSE {c \in MatrixChoiceSets : Len(c[1]) <= Len(VarPool) /\ c[2] = BaseChoiceSet[2]}

InitMatrix ==
    /\ \E t1, t2 \in QuestionTypes : \E c \in ChoiceSetsOf(t2) :
          /\ questions = [q \in {"q1", "q2"} |->
                IF q = "q1" THEN RowQuestion(1, t1, BaseChoiceSet)
                ELSE RowQuestion(2, t2, c)]
          /\ LET cols == UNION {get_variable_names(questions[q]) : q \in {"q1", "q2"}}
             IN  response_set \in
                    {<< >>, <<[v \in cols |-> Cell(1)], [v \in cols |-> NaN]>>}
    /\ matrices = << >>
    /\ result = NoCall

\* the lists of children a matrix is built from: some of the questions, in
\* any order
ChildLists ==
    {<< >>} \cup {<<q>> : q \in DOMAIN questions}
            \cup {l \in (DOMAIN questions) \X (DOMAIN questions) : l[1] # l[2]}

NextMatrix ==
    \/ \E cls \in {"SelectOneMatrixQuestion", "SelectMultipleMatrixQuestion"},
           ids \in ChildLists :
          NewMatrix(cls, ids)
    \/ \E m \in DOMAIN matrices, remove_exclusions, show_values \in BOOLEAN :
          SelectOneMatrixGetChoices(m, remove_exclusions, show_values)
    \/ \E m \in DOMAIN matrices, remove_exclusions \in BOOLEAN :
          SelectMultipleMatrixGetChoices(m, remove_exclusions)
    \/ \E m \in DOMAIN matrices, show \in Shows, remove_exclusions \in BOOLEAN,
           o \in {<<TRUE, TRUE>>, <<TRUE, FALSE>>, <<FALSE, FALSE>>} :
          SelectOneMatrixFrequencyTable(m, show, remove_exclusions, o[1], o[2])
    \/ \E m \in DOMAIN matrices, show \in Shows,
           remove_exclusions, show_totals \in BOOLEAN :
          SelectMultipleMatrixFrequencyTable(m, show, remove_exclusions, show_totals)
    \/ Return

SpecMatrix == InitMatrix /\ [][NextMatrix]_vars

(***************************************************************************)
(* Properties of the matrices.                                             *)
(***************************************************************************)
\* the choice set of a question: labels, values (a single-answer question
\* has them) and exclusion flags, in order
ChoiceSetOf(self) ==
    <<self.choices,
      IF self.type = "SelectOneQuestion" THEN self.values ELSE << >>,
      self.exclude_from_analysis>>

\* the children are of one concrete type and have one choice set
Homogeneous(ids) ==
    \A i, j \in DOMAIN ids :
        /\ questions[ids[i]].type = questions[ids[j]].type
        /\ ChoiceSetOf(questions[ids[i]]) = ChoiceSetOf(questions[ids[j]])

\* get_choices of a question, whatever its type
QuestionChoices(self, remove_exclusions, show_values) ==
    IF self.type = "SelectOneQuestion"
    THEN SelectOneQuestion_get_choices(self, remove_exclusions, show_values)
    ELSE SelectMultipleQuestion_get_choices(self, remove_exclusions)

\* the construction of a matrix succeeds if and only if its children are of
\* one type and have one choice set
ConstructionValidates ==
    result.op = "MatrixQuestion.__init__" =>
        (result.raised = "" <=> Homogeneous(result.questions))

\* C4: the construction of a matrix succeeds if and only if its children
\* are of one concrete type and have structurally identical choice sets,
\* and get_choices on a constructed matrix returns what get_choices returns
\* on every one of its children.
C4_AsClaimed ==
    /\ ConstructionValidates
    /\ result.op = "MatrixQuestion.get_choices" =>
          \A i \in DOMAIN matrices[result.self].questions :
              /\ result.raised = ""
              /\ result.ret = QuestionChoices(
                                  questions[matrices[result.self].questions[i]],
                                  result.remove_exclusions, result.show_values)

\* the number of choices of a question that an analysis retains, by its
\* exclusion flags
Retained(self, remove_exclusions) ==
    Cardinality({i \in DOMAIN self.exclude_from_analysis :
                    ~(remove_exclusions /\ self.exclude_from_analysis[i])})

RecognizedModes(cls) ==
    IF cls = "SelectOneMatrixQuestion" THEN {"ct", "pct"}
    ELSE {"ct", "pct_respondents", "pct_responses"}

\* C6: frequency_table of a matrix fails if and only if `show` is not a mode
\* of the matrix's form, and for a mode it returns one row per child, in
\* child order, labelled by the child's text, with one column per retained
\* choice (after the Question column, before the totals and the mean).
\* Stated for a matrix that has a child.
C6_AsClaimed ==
    (/\ result.op = "MatrixQuestion.frequency_table"
     /\ matrices[result.self].questions # << >>) =>
        LET self == matrices[result.self]
            qs == children(self, questions)
            extras == (IF result.show_totals THEN 1 ELSE 0)
                      + (IF result.show_mean THEN 1 ELSE 0)
        IN  /\ result.raised # "" <=> result.show \notin RecognizedModes(self.type)
            /\ result.raised = "" =>
                  /\ Len(result.ret.rows) = Len(qs)
                  /\ \A i \in DOMAIN qs :
                        /\ result.ret.rows[i][1] = qs[i].text
                        /\ Len(result.ret.rows[i]) = Len(result.ret.columns)
                        /\ Len(result.ret.columns) =
                              1 + Retained(qs[i], result.remove_exclusions) + extras

(***************************************************************************)
(* Specification of the comparison of groups on a single-answer question:  *)
(* the question, and a dataset of its answer column and a grouping column. *)
(***************************************************************************)
\* the significance levels a caller passes, in thousandths: the default .05
\* and a stricter one
Levels == {50, 20}

SelectOneCompareGroups(q, by, pval) ==
    /\ Idle
    /\ questions[q].type = "SelectOneQuestion"
    /\ LET groups == groupby(response_set, by)
       IN  \E p \in SelectOneQuestion_p_values(questions[q], groups) :
              LET out == SelectOneQuestion_compare_groups(questions[q], groups, pval, p)
              IN  result' = [op |-> "SelectOneQuestion.compare_groups", self |-> q,
                             groups |-> groups, pval |-> pval, test |-> out.test,
                             p |-> out.p, raised |-> "", ret |-> out.ret]
    /\ UNCHANGED <<questions, matrices, response_set>>

InitCompare ==
    /\ questions = [q \in {"q1"} |->
          SelectOneQuestion("Q1", "v1", <<"Yes", "No">>, "v1", <<1, 2>>,
                            <<FALSE, FALSE>>, None)]
    /\ matrices = << >>
    /\ response_set \in
          Datasets([v1 : {NaN, Cell(1), Cell(2)}, g : {Cell(1), Cell(2), Cell(3)}],
                   MaxCompareRows)
    /\ result = NoCall

NextCompare ==
    \/ \E q \in DOMAIN questions, pval \in Levels :
          SelectOneCompareGroups(q, "g", pval)
    \/ Return

SpecCompare == InitCompare /\ [][NextCompare]_vars

\* the distinct answers to the question that appear in the groups
DistinctAnswers(self, groups) ==
    UNION {{groups[g].rows[i][self.variable] : i \in DOMAIN groups[g].rows} :
              g \in DOMAIN groups} \ {NaN}

\* C10: compare_groups picks its test by the number of groups: with exactly
\* 2 groups the two-sample test, returning p < the caller's level; for more
\* than 2 groups in which exactly 2 distinct values appear the omnibus test
\* across all groups, returning p < .05; no test and false for every other
\* grouping.  It returns a boolean and never raises.
C10_AsClaimed ==
    result.op = "SelectOneQuestion.compare_groups" =>
        LET self == questions[result.self]
            n == Len(result.groups)
            answers == DistinctAnswers(self, result.groups)
        IN  /\ result.raised = ""
            /\ result.ret \in BOOLEAN
            /\ n = 2 => /\ result.test = "ttest_ind"
                        /\ result.ret = below(result.p, result.pval)
            /\ (n > 2 /\ Cardinality(answers) = 2) =>
                        /\ result.test = "f_oneway"
                        /\ result.ret = below(result.p, 50)
            /\ (n < 2 \/ (n > 2 /\ Cardinality(answers) # 2)) =>
                        /\ result.test = ""
                        /\ result.ret = FALSE

(***************************************************************************)
(* Specification of cross-tabulation: a grid of two single-answer          *)
(* questions q1 and q3, a multi-answer question q2, and the grouping       *)
(* question g, whose last choice may be left out of the analysis and whose *)
(* label is its variable name or another name; a dataset of one to         *)
(* MaxCutRows respondents that holds the answer columns, and under the     *)
(* label of g either the same answers or nothing.                          *)
(***************************************************************************)
\* what a respondent answered to q1, q3 and q2
Profiles ==
    {[v1 |-> Cell(1), v3 |-> Cell(2), a |-> Cell(1), b |-> NaN],
     [v1 |-> Cell(2), v3 |-> Cell(1), a |-> NaN, b |-> Cell(1)],
     [v1 |-> NaN, v3 |-> NaN, a |-> NaN, b |-> NaN]}

\* the row of a respondent of profile pr who answered k to g
CutRow(pr, k, label_column) ==
    [c \in DOMAIN pr \cup {"g"} \cup (IF label_column THEN {"grp"} ELSE {}) |->
        IF c \in DOMAIN pr THEN pr[c] ELSE Cell(k)]

CutHeap(flags, gflags, glabel) ==
    [q \in {"q1", "q2", "q3", "g"} |->
        CASE q = "q1" -> SelectOneQuestion("Q1", "v1", <<"Yes", "No">>, "v1", <<1, 2>>,
                                           flags, None)
          [] q = "q3" -> SelectOneQuestion("Q3", "v3", <<"Yes", "No">>, "v3", <<1, 2>>,
                                           flags, None)
          [] q = "q2" -> SelectMultipleQuestion("Q2", <<"a", "b">>, <<"Yes", "No">>, "q2",
                                                flags, None)
          [] q = "g" -> SelectOneQuestion("Group", "g", <<"A", "B">>, glabel,
                                          <<1, 2>>, gflags, None)]

InitCut ==
    /\ \E flags \in {<<FALSE, FALSE>>, <<FALSE, TRUE>>},
          gflags \in {<<FALSE, FALSE>>, <<FALSE, TRUE>>},
          glabel \in {"g", "grp"}, label_column \in BOOLEAN :
          /\ label_column => glabel = "grp"
          /\ LET heap == CutHeap(flags, gflags, glabel)
                 m == MatrixQuestion_init("SelectOneMatrixQuestion", "Matrix", "m",
                                          <<"q1", "q3">>, heap)
             IN  /\ matrices = <<m.ret>>
                 /\ questions = assign_children_to_matrix(<<"q1", "q3">>, 1, heap)
          /\ response_set \in
                Datasets({CutRow(pr, k, label_column) : pr \in Profiles, k \in 1..2},
                         MaxCutRows) \ {<< >>}
    /\ result = NoCall

\* the object a caller passes as the grouping question
Other(o) == IF o = "m" THEN matrices[1] ELSE questions[o]

Others == {"g", "q2", "m"}

SelectOneCutBy(q, o, remove_exclusions, show_mean) ==
    /\ Idle
    /\ \E groups \in {groupby(response_set, questions[o].variable)} :
           \E p \in SelectOneQuestion_p_values(questions[q], groups) :
              \E out \in {SelectOneQuestion_cut_by(questions[q], groups,
                             dict_zip(questions[o].values, questions[o].choices),
                             questions[o].text, "", remove_exclusions, show_mean, p)} :
                  result' = [op |-> "SelectOneQuestion.cut_by", self |-> q, other |-> o,
                             groups |-> groups, remove_exclusions |-> remove_exclusions,
                             show_mean |-> show_mean, raised |-> out.raised,
                             ret |-> out.ret]
    /\ UNCHANGED <<questions, matrices, response_set>>

SelectMultipleCutBy(q, o, remove_exclusions) ==
    /\ Idle
    /\ \E groups \in {groupby(response_set, questions[o].variable)} :
       \E out \in {SelectMultipleQuestion_cut_by(questions[q], groups,
                      dict_zip(questions[o].values, questions[o].choices),
                      questions[o].text, "", remove_exclusions)} :
           result' = [op |-> "SelectMultipleQuestion.cut_by", self |-> q, other |-> o,
                      groups |-> groups, remove_exclusions |-> remove_exclusions,
                      show_mean |-> FALSE, raised |-> out.raised, ret |-> out.ret]
    /\ UNCHANGED <<questions, matrices, response_set>>

SelectOneCutByQuestion(q, o, remove_exclusions, show_mean) ==
    /\ Idle
    /\ \E at \in {SelectOneQuestion_cut_groups(Other(o), response_set, remove_exclusions)} :
           \E p \in SelectOneQuestion_p_values(questions[q], at.groups) :
              \E out \in {SelectOneQuestion_cut_by_question(questions[q], Other(o),
                             response_set, "", "", remove_exclusions, show_mean, p)} :
                  result' = [op |-> "SelectOneQuestion.cut_by_question", self |-> q,
                             other |-> o, remove_exclusions |-> remove_exclusions,
                             show_mean |-> show_mean, raised |-> out.raised,
                             ret |-> out.ret, steps |-> out.steps,
                             groups |-> out.groups]
    /\ UNCHANGED <<questions, matrices, response_set>>

SelectMultipleCutByQuestion(q, o, remove_exclusions) ==
    /\ Idle
    /\ \E out \in {SelectMultipleQuestion_cut_by_question(questions[q], Other(o),
                      response_set, "", "", remove_exclusions)} :
           result' = [op |-> "SelectMultipleQuestion.cut_by_question", self |-> q,
                      other |-> o, remove_exclusions |-> remove_exclusions,
                      show_mean |-> FALSE, raised |-> out.raised, ret |-> out.ret,
                      steps |-> out.steps, groups |-> out.groups]
    /\ UNCHANGED <<questions, matrices, response_set>>

SelectOneMatrixCutByQuestion(m, o, remove_exclusions, show_mean) ==
    /\ Idle
    /\ \E self \in {matrices[m]},
          at \in {SelectOneMatrixQuestion_cut_groups(Other(o), response_set)} :
           \E ps \in [DOMAIN self.questions -> PValues] :
              /\ \A i \in DOMAIN ps :
                    ps[i] \in SelectOneQuestion_p_values(questions[self.questions[i]],
                                                         at.groups)
              /\ \E out \in {SelectOneMatrixQuestion_cut_by_question(self, questions,
                                Other(o), response_set, "", << >>, remove_exclusions,
                                show_mean, ps)} :
                     result' = [op |-> "SelectOneMatrixQuestion.cut_by_question",
                                self |-> m, other |-> o,
                                remove_exclusions |-> remove_exclusions,
                                show_mean |-> show_mean, raised |-> out.raised,
                                ret |-> out.ret, steps |-> out.steps,
                                groups |-> out.groups]
    /\ UNCHANGED <<questions, matrices, response_set>>

NextCut ==
    \/ \E remove_exclusions, show_mean \in BOOLEAN :
          SelectOneCutBy("q1", "g", remove_exclusions, show_mean)
    \/ \E remove_exclusions \in BOOLEAN :
          SelectMultipleCutBy("q2", "g", remove_exclusions)
    \/ \E o \in Others, remove_exclusions, show_mean \in BOOLEAN :
          SelectOneCutByQuestion("q1", o, remove_exclusions, show_mean)
    \/ \E o \in Others, remove_exclusions \in BOOLEAN :
          SelectMultipleCutByQuestion("q2", o, remove_exclusions)
    \/ \E o \in Others, remove_exclusions, show_mean \in BOOLEAN :
          SelectOneMatrixCutByQuestion(1, o, remove_exclusions, show_mean)
    \/ Return

SpecCut == InitCut /\ [][NextCut]_vars

(***************************************************************************)
(* Properties of cross-tabulation.                                         *)
(***************************************************************************)
CutByQuestionOps ==
    {"SelectOneQuestion.cut_by_question", "SelectMultipleQuestion.cut_by_question",
     "SelectOneMatrixQuestion.cut_by_question"}

\* the label of the choice of a single-answer question that has value v
LabelOf(self, v) == self.choices[CHOOSE i \in DOMAIN self.values : self.values[i] = v]

\* C5: for a single-answer or multi-answer question and a grouping of G
\* groups, cut_by returns a table of exactly G rows, each keyed by (axis
\* label, group label), and exactly one sub-column per retained choice (and
\* one more, the mean, for a single-answer question asked for it), all under
\* the question's label; also when remove_exclusions drops choices.
\* Stated for groupings in which every group has a respondent who answered
\* the question.
C5_AsClaimed ==
    (/\ result.op \in {"SelectOneQuestion.cut_by", "SelectMultipleQuestion.cut_by"}
     /\ \A g \in DOMAIN result.groups :
           \E i \in DOMAIN result.groups[g].rows :
              \E v \in get_variable_names(questions[result.self]) :
                 result.groups[g].rows[i][v] # NaN) =>
        LET self == questions[result.self]
            other == questions[result.other]
            groups == result.groups
            width == Retained(self, result.remove_exclusions)
                     + (IF result.show_mean THEN 1 ELSE 0)
        IN  /\ result.raised = ""
            /\ Len(result.ret.index) = Len(groups)
            /\ \A g \in DOMAIN groups :
                  result.ret.index[g] = <<other.text, LabelOf(other, groups[g].key)>>
            /\ Len(result.ret.columns) = width
            /\ \A c \in DOMAIN result.ret.columns : result.ret.columns[c][1] = self.text

\* C7: in each of the three forms, cut_by_question with a grouping question
\* that is not a single-answer question raises its exception before any
\* working copy, grouping or tabulation; no table is produced, and the
\* dataset and every question and matrix are as they were.
C7_WrongTypeFailsFirst ==
    [][(/\ result'.op \in CutByQuestionOps
        /\ Other(result'.other).type # "SelectOneQuestion")
       => /\ result'.raised = OnlySelectOne
          /\ result'.steps = << >>
          /\ result'.ret = None
          /\ UNCHANGED <<questions, matrices, response_set>>]_vars

\* the matrix form was called with a multi-answer grouping question, and
\* raised
C7_Witness ==
    /\ result.op = "SelectOneMatrixQuestion.cut_by_question"
    /\ Other(result.other).type = "SelectMultipleQuestion"
    /\ result.raised = OnlySelectOne

\* C9: cut_by_question with remove_exclusions=True, in each of the three
\* forms and whatever the label and the variable name of the grouping
\* question are, groups the respondents with every excluded value of the
\* grouping question made missing: no group is that of an excluded choice.
C9_AsClaimed ==
    (/\ result.op \in CutByQuestionOps
     /\ result.remove_exclusions
     /\ Other(result.other).type = "SelectOneQuestion") =>
        LET other == Other(result.other)
        IN  \A g \in DOMAIN result.groups :
               \A i \in DOMAIN other.values :
                  other.values[i] = result.groups[g].key
                     => ~other.exclude_from_analysis[i]

(***************************************************************************)
(* Specification of the comparison of groups on a multi-answer question:   *)
(* the question, whose second choice may be left out of the analysis, and  *)
(* a dataset of its two choice columns and a grouping column.              *)
(***************************************************************************)
\* the significance levels a caller passes, in thousandths: the default .05
\* and a loose one
MultiLevels == {50, 500}

SelectMultipleCompareGroups(q, by, remove_exclusions, pval) ==
    /\ Idle
    /\ questions[q].type = "SelectMultipleQuestion"
    /\ \E groups \in {groupby(response_set, by)} :
       \E out \in {SelectMultipleQuestion_compare_groups(questions[q], groups,
                      remove_exclusions, pval)} :
           result' = [op |-> "SelectMultipleQuestion.compare_groups", self |-> q,
                      groups |-> groups, remove_exclusions |-> remove_exclusions,
                      pval |-> pval, raised |-> out.raised, ret |-> out.ret]
    /\ UNCHANGED <<questions, matrices, response_set>>

InitCompareMulti ==
    /\ \E flags \in {<<FALSE, FALSE>>, <<FALSE, TRUE>>} :
          questions = [q \in {"q2"} |->
             SelectMultipleQuestion("Q2", <<"a", "b">>, <<"Yes", "No">>, "q2", flags,
                                    None)]
    /\ matrices = << >>
    /\ response_set \in
          Datasets({[a |-> pr[1], b |-> pr[2], g |-> Cell(k)] :
                       pr \in {<<Cell(1), NaN>>, <<NaN, Cell(1)>>, <<NaN, NaN>>},
                       k \in 1..3},
                   MaxCompareRows)
    /\ result = NoCall

NextCompareMulti ==
    \/ \E q \in DOMAIN questions, remove_exclusions \in BOOLEAN, pval \in MultiLevels :
          SelectMultipleCompareGroups(q, "g", remove_exclusions, pval)
    \/ Return

SpecCompareMulti == InitCompareMulti /\ [][NextCompareMulti]_vars

\* C11: compare_groups of a multi-answer question applies to every
\* grouping, whatever the number of groups: it never fails, also when some
\* or every group has no respondent, and returns one boolean for each
\* retained choice, in choice order.  Stated for groupings of at least one
\* group.
C11_AsClaimed ==
    (/\ result.op = "SelectMultipleQuestion.compare_groups"
     /\ result.groups # << >>) =>
        /\ result.raised = ""
        /\ Len(result.ret) = Retained(questions[result.self], result.remove_exclusions)
        /\ \A c \in DOMAIN result.ret : result.ret[c] \in BOOLEAN


(***************************************************************************)
(* Construction attempts interleaved with every tabulation call.           *)
(***************************************************************************)
MaxFrameMatrices == 2

\* child lists a caller tries: valid ones, one mixing question types and one
\* mixing choice lists
FrameChildLists ==
    {<<"q1", "q3">>, <<"q3">>, <<"q2">>, <<"q1", "q2">>, <<"q1", "g">>}

InitFrame ==
    /\ questions = CutHeap(<<FALSE, TRUE>>, <<FALSE, FALSE>>, "g")
    /\ matrices = << >>
    /\ \E first, second \in Profiles :
          response_set = <<CutRow(first, 1, FALSE), CutRow(second, 2, FALSE)>>
    /\ result = NoCall

SelectOnes == {"q1", "q3", "g"}

OneMatrices == {m \in DOMAIN matrices : matrices[m].type = "SelectOneMatrixQuestion"}

NextFrame ==
    \/ \E ids \in FrameChildLists :
          MatrixQuestionNew(IF questions[ids[1]].type = "SelectOneQuestion"
                            THEN "SelectOneMatrixQuestion"
                            ELSE "SelectMultipleMatrixQuestion", ids, MaxFrameMatrices)
    \/ \E q \in SelectOnes, remove_exclusions \in BOOLEAN :
          SelectOneTally(q, remove_exclusions)
    \/ \E q \in SelectOnes, remove_exclusions \in BOOLEAN :
          SelectOneMean(q, remove_exclusions)
    \/ \E q \in SelectOnes, o \in SelectOneTableOptions, remove_exclusions \in BOOLEAN :
          SelectOneFrequencyTable(q, o, remove_exclusions)
    \/ \E remove_exclusions \in BOOLEAN :
          SelectMultipleTally("q2", remove_exclusions)
    \/ \E o \in SelectMultipleTableOptions, remove_exclusions \in BOOLEAN :
          SelectMultipleFrequencyTable("q2", o, remove_exclusions)
    \/ \E q \in {"q1", "q3"}, pval \in Levels :
          SelectOneCompareGroups(q, "g", pval)
    \/ \E remove_exclusions \in BOOLEAN, pval \in MultiLevels :
          SelectMultipleCompareGroups("q2", "g", remove_exclusions, pval)
    \/ \E q \in {"q1", "q3"}, remove_exclusions, show_mean \in BOOLEAN :
          SelectOneCutBy(q, "g", remove_exclusions, show_mean)
    \/ \E remove_exclusions \in BOOLEAN :
          SelectMultipleCutBy("q2", "g", remove_exclusions)
    \/ \E q \in {"q1", "q3"}, o \in {"g", "q2"}, remove_exclusions, show_mean \in BOOLEAN :
          SelectOneCutByQuestion(q, o, remove_exclusions, show_mean)
    \/ \E o \in {"g", "q2"}, remove_exclusions \in BOOLEAN :
          SelectMultipleCutByQuestion("q2", o, remove_exclusions)
    \/ \E m \in OneMatrices, o \in {"g", "q2"}, remove_exclusions, show_mean \in BOOLEAN :
          SelectOneMatrixCutByQuestion(m, o, remove_exclusions, show_mean)
    \/ \E m \in DOMAIN matrices, show \in Shows, remove_exclusions \in BOOLEAN, show_totals \in BOOLEAN, show_mean \in BOOLEAN :
          SelectOneMatrixFrequencyTable(m, show, remove_exclusions, show_totals, show_mean)
    \/ \E m \in DOMAIN matrices, show \in Shows, remove_exclusions \in BOOLEAN, show_totals \in BOOLEAN :
          SelectMultipleMatrixFrequencyTable(m, show, remove_exclusions, show_totals)
    \/ Return

SpecFrame == InitFrame /\ [][NextFrame]_vars

(***************************************************************************)
(* Properties of the frame: what a call may change.                        *)
(***************************************************************************)
Constructed == result'.op = "MatrixQuestion.__init__" /\ result'.raised = ""

Listed(q, ids) == \E i \in DOMAIN ids : ids[i] = q

\* the back-reference of a question changes only at a successful construction
\* that lists it, and then names the matrix just built; a failed construction
\* changes no back-reference
BackReferenceFollowsConstruction ==
    [][/\ \A q \in DOMAIN questions :
             /\ questions'[q].matrix # questions[q].matrix =>
                   Constructed /\ Listed(q, result'.questions)
             /\ (Constructed /\ Listed(q, result'.questions)) =>
                   /\ questions'[q].matrix = result'.ret
                   /\ result'.ret = Ref(Len(matrices'))
       /\ (result'.op = "MatrixQuestion.__init__" /\ result'.raised # "") =>
             /\ matrices' = matrices
             /\ \A q \in DOMAIN questions : questions'[q].matrix = questions[q].matrix
      ]_vars

\* C12: over any sequence of construction attempts and tabulation calls, a
\* question's back-reference changes only at a successful construction whose
\* child list contains it, after which it equals that matrix (the most recent
\* one); a construction that fails validation leaves every back-reference
\* unchanged; and no tabulation call changes any attribute of any question.
C12_AsClaimed ==
    [][/\ \A q \in DOMAIN questions :
             /\ questions'[q].matrix # questions[q].matrix =>
                   Constructed /\ Listed(q, result'.questions)
             /\ (Constructed /\ Listed(q, result'.questions)) =>
                   questions'[q].matrix = Ref(Len(matrices'))
       /\ (result'.op = "MatrixQuestion.__init__" /\ result'.raised # "") =>
             \A q \in DOMAIN questions : questions'[q].matrix = questions[q].matrix
       /\ result'.op \notin {"MatrixQuestion.__init__", NoCall.op} =>
             questions' = questions
      ]_vars

====
